---- MODULE Spec2Model ----
(***************************************************************************)
(* Model of the resumable per-item folder transfer of web_ui.py:           *)
(* upload_folder / download_folder, their progress files                   *)
(* (upload_progress.json, download_progress.json) and the retry loop.      *)
(*                                                                         *)
(* A worker runs one session at a time.  A session is cut into the steps   *)
(* at which the process can be terminated with a different durable         *)
(* outcome: setup (enumerate, load progress), one transfer attempt, the    *)
(* read half and the write half of save_progress, the end-of-loop test,    *)
(* the read half and the write half of clear_progress.                     *)
(* The environment chooses the tree found at session start, whether a      *)
(* connect, a channel operation or a progress save fails, and when the     *)
(* process is terminated.                                                  *)
(***************************************************************************)
EXTENDS Integers, Sequences, FiniteSets, TLC

VARIABLES store, sess, hist, nSessions, nFails, conn, arch, rt, dsess, ens, lst, ks

vars == <<store, sess, hist, nSessions, nFails, conn, arch, rt, dsess, ens, lst, ks>>

\* the variables of the per-item sessions, and the others
itemVars == <<store, sess, hist, nSessions, nFails>>
laterVars == <<dsess, ens, lst, ks>>
otherVars == <<conn, arch, rt, laterVars>>

(* ------------------------------ bounds -------------------------------- *)

\* number of distinct relative paths the source tree can hold
MaxFiles == 2
\* failures (connect, channel operation, progress save) injected in one behaviour
MaxFails == 3
\* sessions started in one behaviour
MaxSessions == 2

(* ----------------------------- constants ------------------------------ *)

\* max_retries of the per-file loop
max_retries == 3
\* max_retries of create_sftp_connection
conn_retries == 3
\* range(3) of the per-file loop of upload_files
files_retries == 3

Files == 1..MaxFiles
Roots == {"r1"}
Dirs == {"up", "down"}
Procs == {1}

(* ------------------------------ helpers ------------------------------- *)

Range(s) == {s[i] : i \in 1..Len(s)}

\* the files of a tree in walk order (a fixed order for a fixed tree)
RECURSIVE SeqOf(_)
SeqOf(S) ==
  IF S = {} THEN <<>>
  ELSE LET m == CHOOSE x \in S : \A y \in S : x <= y
       IN <<m>> \o SeqOf(S \ {m})

\* the identifier under which a completed file is recorded:
\* upload appends rel_path, download appends the absolute remote path
ItemId(d, root, f) == IF d = "up" THEN <<"rel", f>> ELSE <<root, f>>

(* --------------------------- progress files --------------------------- *)

\* a progress file: readable JSON holding a dict root -> list, or not
\* parseable (truncated by an interrupted write)
EmptyFile == [ok |-> TRUE, m |-> <<>>]
TornFile == [ok |-> FALSE, m |-> <<>>]

\* progress.get(key, [])
Get(m, root) == IF root \in DOMAIN m THEN m[root] ELSE <<>>

\* progress[key] = completed_files
Put(m, root, v) ==
  [r \in (DOMAIN m) \cup {root} |-> IF r = root THEN v ELSE m[r]]

\* del progress[key]
Del(m, root) ==
  IF DOMAIN m \subseteq {root} THEN <<>>
  ELSE [r \in (DOMAIN m) \ {root} |-> m[r]]

\* the completed list a reader of the file finds for a root
Stored(d, root) == IF store[d].ok THEN Get(store[d].m, root) ELSE <<>>

(* ------------------------------ sessions ------------------------------ *)

\* what is remembered of the previous session of the process
NoHist ==
  [kind |-> "none", dir |-> "up", root |-> "r1", manifest |-> <<>>,
   persisted |-> {}, full |-> FALSE]

Zero == [f \in Files |-> 0]

\* the locals of upload_folder / download_folder.  sftp is 0 for None and 1
\* for an open handle; bad tells that a call on the current handle failed.
\* Bookkeeping for the properties: completed0 (the list loaded at session
\* start), natt / nsent (attempts made and transfer calls issued per file),
\* cleared (clear_progress was called).
IdleSess ==
  [pc |-> "idle", dir |-> "up", root |-> "r1", resume |-> FALSE,
   all_files |-> <<>>, completed_files |-> <<>>, completed0 |-> <<>>,
   remaining_files |-> <<>>, idx |-> 1, attempt |-> 0,
   sftp |-> 0, bad |-> FALSE, results |-> <<>>, prog |-> <<>>,
   natt |-> Zero, nsent |-> Zero,
   ret |-> "none", cleared |-> FALSE]

Line(k, f) == [k |-> k, f |-> f]

\* (variant for C8: the completed list is not consulted)
RemainingIgnoringCompleted(d, root, all_files, completed) == all_files

\* remaining_files: the manifest entries whose identifier is not in the
\* completed list, in manifest order
RemainingFiles(d, root, all_files, completed) ==
  LET todo(f) == ItemId(d, root, f) \notin Range(completed)
  IN SelectSeq(all_files, todo)

\* the end-of-loop test that decides whether the record is cleared
Covers(d, root, completed, all_files) ==
  IF d = "up"
  THEN \A i \in 1..Len(all_files) :
         ItemId(d, root, all_files[i]) \in Range(completed)
  ELSE Len(completed) = Len(all_files)

\* (variant for C6: a final failure leaves the file loop)
OnFailureAborting(s) ==
  IF s.attempt = max_retries - 1
  THEN [s EXCEPT !.results = Append(@, Line("fail", s.remaining_files[s.idx])),
                 !.idx = Len(s.remaining_files) + 1, !.attempt = 0,
                 !.pc = "loop"]
  ELSE [s EXCEPT !.sftp = 0, !.bad = FALSE, !.attempt = @ + 1, !.pc = "loop"]

\* (variant for C29: the exception of an attempt leaves the session)
OnFailureRaising(s) ==
  [s EXCEPT !.pc = "done", !.ret = "err", !.sftp = 0, !.bad = FALSE]

\* the except branch of the attempt loop, for the file at idx
OnFailure(s) ==
  IF s.attempt = max_retries - 1
  THEN [s EXCEPT !.results = Append(@, Line("fail", s.remaining_files[s.idx])),
                 !.idx = @ + 1, !.attempt = 0, !.pc = "loop"]
  ELSE [s EXCEPT !.sftp = 0, !.bad = FALSE, !.attempt = @ + 1, !.pc = "loop"]

\* the success path after save_progress returned: result line, then break
OnSaved(s) ==
  [s EXCEPT !.results = Append(@, Line("ok", s.remaining_files[s.idx])),
            !.idx = @ + 1, !.attempt = 0, !.pc = "loop"]

\* the files with a success line in the report of session s
Succeeded(s) == {f \in Files : Line("ok", f) \in Range(s.results)}

\* a session that returned its report having transferred its whole manifest
FullSession(s) ==
  /\ s.ret = "report"
  /\ s.all_files # <<>>
  /\ Range(s.all_files) \subseteq Succeeded(s)

ExitHist(s) ==
  [kind |-> "exit", dir |-> s.dir, root |-> s.root,
   manifest |-> IF FullSession(s) THEN s.all_files ELSE <<>>,
   persisted |-> {}, full |-> FullSession(s)]

\* while a session runs
RunHist(s) ==
  [kind |-> "run", dir |-> s.dir, root |-> s.root, manifest |-> <<>>,
   persisted |-> {}, full |-> FALSE]

\* persisted: the files whose save returned in the killed session, unless
\* the session had gone on to clear the record
CrashHist(s) ==
  [kind |-> "crash", dir |-> s.dir, root |-> s.root, manifest |-> <<>>,
   persisted |-> IF s.cleared THEN {} ELSE Succeeded(s),
   full |-> FALSE]

\* return: the finally clause closes the handle
Ended(s, ret) == [s EXCEPT !.pc = "done", !.ret = ret, !.sftp = 0, !.bad = FALSE]

(* -------------------------- connection layer -------------------------- *)

\* A session seen at the level of its channel handles: kind is the entry
\* point, held tells whether the local sftp holds a handle, open counts the
\* handles (transports) opened and not closed, connected / authFailed tell
\* that a call of create_sftp_client returned / failed at authentication,
\* ctry is the loop variable of create_sftp_connection and cctx the place
\* that called it, nconnect counts the calls of create_sftp_client made
\* since the loop reached the current file.
IdleConn ==
  [kind |-> "none", pc |-> "idle", nfiles |-> 0, idx |-> 1, attempt |-> 0,
   ctry |-> 0, cctx |-> "none", held |-> 0, open |-> 0,
   connected |-> FALSE, authFailed |-> FALSE, nconnect |-> 0,
   results |-> <<>>, ret |-> "none"]

Kinds == {"upload_folder", "download_folder", "upload_files"}

(* -------------------------- archive sessions -------------------------- *)

\* the workers that run archive sessions, the folder names and the values
\* uuid4().hex[:8] can take
ArchProcs == {1, 2}
Names == {"a", "b"}
Uuids == {1, 2}

NoPath == <<>>

\* the locals of upload_compressed_folder / download_compressed_folder:
\* lpath / rpath are local_archive_path / remote_archive_path.
\* Bookkeeping: lmade / rmade (the archive file was created), ldel / rdel
\* (a removal of it was attempted), stages (the stages in the order in
\* which they began), sinkLogged (update_progress caught an exception of the
\* progress sink and printed it), failed (the compress or extract stage
\* that raised).
IdleArch ==
  [kind |-> "none", pc |-> "idle", name |-> "a", lpath |-> NoPath,
   rpath |-> NoPath, lmade |-> FALSE, rmade |-> FALSE, ldel |-> FALSE,
   rdel |-> FALSE, stages |-> <<>>, sinkLogged |-> FALSE,
   failed |-> "none", ret |-> "none"]

(* ------------------------- archive contents -------------------------- *)

\* A path is the sequence of its components; a file system is a function
\* from the paths of its files to their contents.
RelPaths == {<<"x">>, <<"y">>, <<"s", "x">>, <<"s", "y">>}
Contents == {0, 1}
LocalBase == <<"home">>
RemoteBase == <<"srv">>
DestBase == <<"dest">>
EmptyFs == <<>>

\* os.path.dirname / os.path.basename / os.path.join
Dirname(path) == SubSeq(path, 1, Len(path) - 1)
Basename(path) == path[Len(path)]
Join(a, b) == a \o b

\* the files of fs below directory dir (os.walk, tar of a directory)
Under(fs, dir) ==
  {f \in DOMAIN fs :
     Len(f) > Len(dir) /\ SubSeq(f, 1, Len(dir)) = dir}

\* os.path.relpath(path, start) for a path below start
Relpath(path, start) == SubSeq(path, Len(start) + 1, Len(path))

\* fs with every file of the archive written below dir (tar -x -C dir,
\* shutil.unpack_archive(archive, dir))
Unpacked(fs, archive, dir) ==
  [f \in DOMAIN fs \cup {Join(dir, m) : m \in DOMAIN archive} |->
     IF \E m \in DOMAIN archive : Join(dir, m) = f
     THEN archive[Relpath(f, dir)]
     ELSE fs[f]]

\* fs without the files below dir (shutil.rmtree)
Rmtree(fs, dir) ==
  IF DOMAIN fs \subseteq Under(fs, dir) THEN EmptyFs
  ELSE [f \in DOMAIN fs \ Under(fs, dir) |-> fs[f]]

\* the archive create_local_archive writes for folder_path: each file is
\* added under arcname = join(folder_name, relpath(file, parent_dir))
CreateLocalArchive(fs, folder_path) ==
  LET folder_name == Basename(folder_path)
      parent_dir == Dirname(folder_path)
      arcname(f) == Join(<<folder_name>>, Relpath(f, parent_dir))
  IN [m \in {arcname(f) : f \in Under(fs, folder_path)} |->
        fs[Join(parent_dir, Relpath(m, <<folder_name>>))]]

\* the archive create_remote_archive writes: cd parent_dir && tar target_dir
CreateRemoteArchive(fs, remote_path) ==
  LET parent_dir == Dirname(remote_path)
  IN [m \in {Relpath(f, parent_dir) : f \in Under(fs, remote_path)} |->
        fs[Join(parent_dir, m)]]

\* the tree below root: relative path -> contents
TreeAt(fs, root) ==
  [r \in {Relpath(f, root) : f \in Under(fs, root)} |-> fs[Join(root, r)]]

\* the round trip of one folder: the local, remote and destination file
\* systems
IdleRound ==
  [pc |-> "idle", name |-> "a", localFs |-> EmptyFs, remoteFs |-> EmptyFs,
   destFs |-> EmptyFs]

(* --------------------------- directory trees ------------------------- *)

\* the directories without files a source tree can hold, besides RelPaths
EmptyDirs == {<<"e">>, <<"s", "e">>}

\* a directory and the directories above it, up to the root <<>>
Prefixes(path) == {SubSeq(path, 1, n) : n \in 0..Len(path)}

\* the directory entries of a tree with the given files and empty
\* directories (what os.walk / the recursive listdir visit)
DirEntries(files, empties) ==
  UNION ({Prefixes(Dirname(f)) : f \in files}
           \cup {Prefixes(e) : e \in empties})

\* a per-item session seen at the level of directories: files / empties
\* are the source tree, todo the files of the loop not yet reached, cur the
\* file of the current iteration, held whether sftp holds a handle.
\* Bookkeeping: ensured (the destination directories for which an ensure
\* call was made: ensure_remote_dir, os.makedirs) and sent (the files for
\* which the transfer call was issued).
IdleDir ==
  [kind |-> "none", pc |-> "idle", files |-> {}, empties |-> {},
   todo |-> {}, cur |-> <<>>, attempt |-> 0, held |-> FALSE,
   ensured |-> {}, sent |-> {}]

(* -------------------------- ensure_remote_dir ------------------------ *)

\* the remote directories an ensured path is made of
EnsurePaths == {<<"a">>, <<"a", "b">>, <<"a", "b", "c">>, <<"a", "d">>}

\* one call of ensure_remote_dir(sftp, remote_path): i is the position of
\* the loop over the parts of remote_path, remote the directories that
\* exist on the server, ret how the call ended ("ok" or "raised")
IdleEnsure ==
  [pc |-> "idle", remote_path |-> <<"a">>, i |-> 0, remote |-> {},
   ret |-> "none"]

(* -------------------------- remote enumeration ----------------------- *)

\* the files a remote tree can hold
ListFiles == {<<"x">>, <<"s", "x">>, <<"t", "x">>, <<"s", "u", "x">>}

\* A remote tree: its files, its directories (the root <<>> included), the
\* directories sftp.listdir fails on (nolist) and the paths sftp.stat
\* fails on (nostat).
RemoteTrees ==
  {[files |-> fl, dirs |-> DirEntries(fl, {}) \cup {<<>>}, nolist |-> nl,
    nostat |-> ns] :
     fl \in SUBSET ListFiles, nl \in SUBSET DirEntries(ListFiles, {}),
     ns \in SUBSET {<<"s">>, <<"t">>, <<"x">>}}

\* the entries sftp.listdir(path) returns
Children(fs, path) ==
  {q \in fs.files \cup fs.dirs :
     Len(q) = Len(path) + 1 /\ SubSeq(q, 1, Len(path)) = path}

\* sftp.listdir(path) returns (it raises on a file and on a directory that
\* cannot be listed)
Listable(fs, path) == path \in fs.dirs /\ path \notin fs.nolist

\* is_dir: the mode of sftp.stat; when stat raises, whether listdir returns
IsDir(fs, path) ==
  IF path \notin fs.nostat THEN path \in fs.dirs ELSE Listable(fs, path)

\* (variant for C26: a listing failure anywhere below remote_path reaches
\* the outermost call, which returns what its except clause leaves)
GetAllRemoteFilesFatal(fs, remote_path) ==
  IF \E d \in fs.dirs : ~Listable(fs, d)
  THEN [all_files |-> {}, all_dirs |-> {remote_path}]
  ELSE [all_files |-> fs.files, all_dirs |-> fs.dirs]

\* get_all_remote_files: all_files (the keys of the dict, full paths) and
\* all_dirs; the listing of remote_path is inside the try, so a failure
\* returns what was collected, the directory itself
RECURSIVE GetAllRemoteFiles(_, _)
GetAllRemoteFiles(fs, remote_path) ==
  IF ~Listable(fs, remote_path)
  THEN [all_files |-> {}, all_dirs |-> {remote_path}]
  ELSE LET items == Children(fs, remote_path)
           subs == {i \in items : IsDir(fs, i)}
       IN [all_files |-> (items \ subs) \cup
                         UNION {GetAllRemoteFiles(fs, d).all_files : d \in subs},
           all_dirs |-> {remote_path} \cup subs \cup
                        UNION {GetAllRemoteFiles(fs, d).all_dirs : d \in subs}]

\* one enumeration: the tree on the server and what the call returned
IdleList ==
  [pc |-> "idle", fs |-> [files |-> {}, dirs |-> {<<>>}, nolist |-> {},
                          nostat |-> {}],
   all_files |-> {}, all_dirs |-> {}]

(* --------------------------- keyed sessions -------------------------- *)

\* Sessions of one direction on several worker threads: each is keyed by
\* its source root (folder_path) and sends to a destination root
\* (remote_base_path); they share the one progress file.
Workers == {1, 2}
KeyRoots == {"r1", "r2"}
Dests == {"d1", "d2"}

\* the sessions started in a behaviour
MaxKeyedSessions == 3

\* the locals of a session: completed_files, the files still to do (todo),
\* the dict loaded by save_progress / clear_progress (prog).
\* Bookkeeping: skipped (the manifest files the resume filter left out).
IdleWorker ==
  [pc |-> "idle", root |-> "r1", dest |-> "d1", completed_files |-> <<>>,
   todo |-> <<>>, prog |-> <<>>, skipped |-> {}]

\* file is the dict of the progress file, w the workers, n the sessions
\* started.  Bookkeeping: delivered (the <<dest, root, file>> for which a
\* transfer returned).
IdleKeyed ==
  [file |-> <<>>, w |-> [x \in Workers |-> IdleWorker], n |-> 0,
   delivered |-> {}]

(* ------------------------------ actions ------------------------------- *)

Init ==
  /\ store = [d \in Dirs |-> EmptyFile]
  /\ sess = [p \in Procs |-> IdleSess]
  /\ hist = NoHist
  /\ nSessions = 0
  /\ nFails = 0
  /\ conn = IdleConn
  /\ arch = [p \in ArchProcs |-> IdleArch]
  /\ rt = IdleRound
  /\ dsess = IdleDir
  /\ ens = IdleEnsure
  /\ lst = IdleList
  /\ ks = IdleKeyed

\* session setup up to the first loop iteration
SetupResult(d, root, resume, tree, setup) ==
  LET all == SeqOf(tree)
      completed == IF resume THEN Get(store[d].m, root) ELSE <<>>
      remaining == RemainingFiles(d, root, all, completed)
      base == [IdleSess EXCEPT !.dir = d, !.root = root, !.resume = resume]
  IN IF d = "down" /\ setup # "ok" THEN Ended(base, "err")
     ELSE IF all = <<>> THEN Ended(base, "err")
     ELSE IF resume /\ ~store[d].ok
          THEN Ended([base EXCEPT !.all_files = all], "err_load")
     ELSE LET s == [base EXCEPT !.all_files = all,
                                !.completed_files = completed,
                                !.completed0 = completed,
                                !.remaining_files = remaining,
                                !.sftp = IF d = "down" THEN 1 ELSE 0,
                                !.results = IF completed # <<>>
                                            THEN <<Line("resume", 0)>>
                                            ELSE <<>>,
                                !.pc = "loop"]
          IN IF remaining = <<>> /\ completed # <<>>
             THEN Ended([s EXCEPT !.results = <<>>], "already")
             ELSE s

\* Spec follows the sessions of one direction: the two directions keep
\* their progress in two files and share no other state
SameDirection(d) == hist.kind # "none" => hist.dir = d

Start(p, d, root, resume, tree, setup) ==
  /\ sess[p].pc \in {"idle", "done"}
  /\ SameDirection(d)
  /\ nSessions < MaxSessions
  /\ d = "up" => setup = "ok"
  /\ LET s == SetupResult(d, root, resume, tree, setup)
     IN /\ sess' = [sess EXCEPT ![p] = s]
        /\ hist' = IF s.pc = "done" THEN ExitHist(s) ELSE RunHist(s)
  /\ nSessions' = nSessions + 1
  /\ UNCHANGED <<store, nFails, otherVars>>

\* one pass through the try body up to and including the transfer call:
\* connect if there is no handle (connfail: create_sftp_connection raised),
\* then the channel calls (xferfail: one of them raised, xferok: the
\* transfer returned and the identifier was appended)
Attempt(p, out) ==
  LET s == sess[p]
      f == s.remaining_files[s.idx]
      s1 == [s EXCEPT !.natt[f] = @ + 1,
                      !.nsent[f] = IF out = "connfail" THEN @ ELSE @ + 1,
                      !.sftp = IF out = "connfail" THEN 0 ELSE 1,
                      !.bad = IF out = "xferfail" THEN TRUE ELSE @]
  IN /\ s.pc = "loop"
     /\ s.idx <= Len(s.remaining_files)
     /\ out = "connfail" => s.sftp = 0
     /\ out # "xferok" => nFails < MaxFails
     /\ sess' = [sess EXCEPT ![p] =
          IF out = "xferok"
          THEN [s1 EXCEPT !.completed_files =
                            Append(@, ItemId(s.dir, s.root, f)),
                          !.pc = "save"]
          ELSE OnFailure(s1)]
     /\ nFails' = IF out = "xferok" THEN nFails ELSE nFails + 1
     /\ UNCHANGED <<store, hist, nSessions, otherVars>>

\* save_progress, first half: load the whole dict and set this root's list;
\* it raises when the file does not parse or on an I/O error (ioerr)
SaveLoad(p, ioerr) ==
  LET s == sess[p]
  IN /\ s.pc = "save"
     /\ ioerr => nFails < MaxFails
     /\ nFails' = IF ioerr THEN nFails + 1 ELSE nFails
     /\ sess' = [sess EXCEPT ![p] =
          IF ioerr \/ ~store[s.dir].ok
          THEN OnFailure(s)
          ELSE [s EXCEPT !.prog = Put(store[s.dir].m, s.root, s.completed_files),
                         !.pc = "save_write"]]
     /\ UNCHANGED <<store, hist, nSessions, otherVars>>

\* (variant for C20: both directions write the upload progress file)
SaveWriteOneFile(p) ==
  LET s == sess[p]
  IN /\ s.pc = "save_write"
     /\ store' = [store EXCEPT !["up"] = [ok |-> TRUE, m |-> s.prog]]
     /\ sess' = [sess EXCEPT ![p] = OnSaved([s EXCEPT !.prog = <<>>])]
     /\ UNCHANGED <<hist, nSessions, nFails, otherVars>>

\* save_progress, second half: open(file, 'w') and dump, run to the end
SaveWrite(p) ==
  LET s == sess[p]
  IN /\ s.pc = "save_write"
     /\ store' = [store EXCEPT ![s.dir] = [ok |-> TRUE, m |-> s.prog]]
     /\ sess' = [sess EXCEPT ![p] = OnSaved([s EXCEPT !.prog = <<>>])]
     /\ UNCHANGED <<hist, nSessions, nFails, otherVars>>

\* after the loop: the covering test, and the first half of clear_progress
FinishResult(s) ==
  IF ~Covers(s.dir, s.root, s.completed_files, s.all_files)
  THEN Ended(s, "report")
  ELSE IF ~store[s.dir].ok THEN Ended([s EXCEPT !.cleared = TRUE], "err_clear")
  ELSE IF s.root \in DOMAIN store[s.dir].m
       THEN [s EXCEPT !.cleared = TRUE, !.prog = Del(store[s.dir].m, s.root),
                      !.pc = "clear_write"]
       ELSE Ended([s EXCEPT !.cleared = TRUE,
                            !.results = Append(@, Line("summary", 0))], "report")

Finish(p) ==
  LET s == sess[p]
      t == FinishResult(s)
  IN /\ s.pc = "loop"
     /\ s.idx > Len(s.remaining_files)
     /\ sess' = [sess EXCEPT ![p] = t]
     /\ hist' = IF t.pc = "done" THEN ExitHist(t) ELSE hist
     /\ UNCHANGED <<store, nSessions, nFails, otherVars>>

\* clear_progress, second half: rewrite the file without this root
ClearWrite(p) ==
  LET s == sess[p]
      t == Ended([s EXCEPT !.results = Append(@, Line("summary", 0)),
                           !.prog = <<>>], "report")
  IN /\ s.pc = "clear_write"
     /\ store' = [store EXCEPT ![s.dir] = [ok |-> TRUE, m |-> s.prog]]
     /\ sess' = [sess EXCEPT ![p] = t]
     /\ hist' = ExitHist(t)
     /\ UNCHANGED <<nSessions, nFails, otherVars>>

Running(p) == sess[p].pc \notin {"idle", "done"}

\* the process is terminated between two steps
Crash(p) ==
  /\ Running(p)
  /\ sess' = [q \in Procs |-> IdleSess]
  /\ hist' = CrashHist(sess[p])
  /\ UNCHANGED <<store, nSessions, nFails, otherVars>>

\* the process is terminated after open(file, 'w') truncated the progress
\* file and before the dump completed
CrashMidWrite(p) ==
  /\ sess[p].pc \in {"save_write", "clear_write"}
  /\ store' = [store EXCEPT ![sess[p].dir] = TornFile]
  /\ sess' = [q \in Procs |-> IdleSess]
  /\ hist' = CrashHist(sess[p])
  /\ UNCHANGED <<nSessions, nFails, otherVars>>

Next ==
  \E p \in Procs :
    \/ \E d \in Dirs, root \in Roots, resume \in BOOLEAN,
          tree \in SUBSET Files, setup \in {"ok", "connfail", "listfail"} :
         Start(p, d, root, resume, tree, setup)
    \/ \E out \in {"connfail", "xferfail", "xferok"} : Attempt(p, out)
    \/ \E ioerr \in BOOLEAN : SaveLoad(p, ioerr)
    \/ SaveWrite(p)
    \/ Finish(p)
    \/ ClearWrite(p)
    \/ Crash(p)
    \/ CrashMidWrite(p)

Spec == Init /\ [][Next]_vars

(* ---------------------------- running to the end -------------------- *)

\* a step of the session's own thread after setup
RunStep(p) ==
  \/ \E out \in {"connfail", "xferfail", "xferok"} : Attempt(p, out)
  \/ \E ioerr \in BOOLEAN : SaveLoad(p, ioerr)
  \/ SaveWrite(p)
  \/ Finish(p)
  \/ ClearWrite(p)

\* the sessions of a process that is not terminated
NextRun ==
  \E p \in Procs :
    \/ \E d \in Dirs, root \in Roots, resume \in BOOLEAN,
          tree \in SUBSET Files, setup \in {"ok", "connfail", "listfail"} :
         Start(p, d, root, resume, tree, setup)
    \/ \E out \in {"connfail", "xferfail", "xferok"} : Attempt(p, out)
    \/ \E ioerr \in BOOLEAN : SaveLoad(p, ioerr)
    \/ SaveWrite(p)
    \/ Finish(p)
    \/ ClearWrite(p)

\* the thread of a session keeps running: every call returns or raises,
\* and the waits between attempts are time.sleep(2)
SpecRun ==
  Init /\ [][NextRun]_vars /\ WF_vars(\E p \in Procs : RunStep(p))

(* --------------------------- both directions ------------------------- *)

\* a session of the other direction starts after one of this direction
StartOther(p, d, root, resume, tree, setup) ==
  /\ sess[p].pc \in {"idle", "done"}
  /\ ~SameDirection(d)
  /\ nSessions < MaxSessions
  /\ d = "up" => setup = "ok"
  /\ LET s == SetupResult(d, root, resume, tree, setup)
     IN /\ sess' = [sess EXCEPT ![p] = s]
        /\ hist' = IF s.pc = "done" THEN ExitHist(s) ELSE RunHist(s)
  /\ nSessions' = nSessions + 1
  /\ UNCHANGED <<store, nFails, otherVars>>

NextBoth ==
  \/ Next
  \/ \E p \in Procs, d \in Dirs, root \in Roots, resume \in BOOLEAN,
        tree \in SUBSET Files, setup \in {"ok", "connfail", "listfail"} :
       StartOther(p, d, root, resume, tree, setup)

SpecBoth == Init /\ [][NextBoth]_vars

(* ---------------------------- progress sink -------------------------- *)

\* progress.tqdm(remaining_files) raises when the loop asks it for the next
\* file: the exception leaves the loop through the finally clause and is
\* returned as the error message
SinkRaise(p) ==
  LET s == sess[p]
      t == Ended(s, "err_sink")
  IN /\ s.pc = "loop"
     /\ s.attempt = 0
     /\ sess' = [sess EXCEPT ![p] = t]
     /\ hist' = ExitHist(t)
     /\ UNCHANGED <<store, nSessions, nFails, otherVars>>

NextSink == Next \/ \E p \in Procs : SinkRaise(p)

SpecSink == Init /\ [][NextSink]_vars

(* ---------------------- connection layer actions --------------------- *)

\* the per-file failure line, then the next file
ConnFailLine(s) ==
  [s EXCEPT !.results = Append(@, Line("fail", s.idx)),
            !.idx = @ + 1, !.attempt = 0, !.nconnect = 0, !.pc = "loop"]

\* the tries of the per-file loop of the session's entry point
Tries(kind) == IF kind = "upload_files" THEN files_retries ELSE max_retries

\* create_sftp_connection raised: where the exception lands
ConnRaised(s) ==
  IF s.cctx = "setup"
  THEN [s EXCEPT !.pc = "done", !.ret = "err", !.results = <<>>]
  ELSE IF s.cctx = "reconnect" THEN ConnFailLine(s)
  ELSE IF s.attempt = max_retries - 1 THEN ConnFailLine(s)
  ELSE [s EXCEPT !.attempt = @ + 1, !.pc = "loop"]

\* create_sftp_connection returned a handle to its caller
ConnReturned(s) ==
  IF s.cctx = "setup" THEN [s EXCEPT !.held = 1, !.nconnect = 0, !.pc = "loop"]
  ELSE IF s.cctx = "reconnect"
       THEN [s EXCEPT !.held = 1, !.attempt = @ + 1, !.pc = "xfer"]
  ELSE [s EXCEPT !.held = 1, !.pc = "xfer"]

\* entry of upload_folder / download_folder / upload_files for n files
ConnStart(kind, n) ==
  /\ conn.pc \in {"idle", "done"}
  /\ conn' = [IdleConn EXCEPT !.kind = kind, !.nfiles = n,
                              !.pc = IF kind = "upload_folder"
                                     THEN "loop" ELSE "connect",
                              !.cctx = IF kind = "upload_folder"
                                       THEN "none" ELSE "setup"]
  /\ UNCHANGED <<itemVars, arch, rt, laterVars>>

\* top of an attempt: connect lazily when sftp is None
ConnBegin ==
  /\ conn.pc = "loop"
  /\ conn.idx <= conn.nfiles
  /\ conn' = IF conn.kind # "upload_files" /\ conn.held = 0
             THEN [conn EXCEPT !.pc = "connect", !.ctry = 0,
                               !.cctx = "attempt"]
             ELSE [conn EXCEPT !.pc = "xfer"]
  /\ UNCHANGED <<itemVars, arch, rt, laterVars>>

\* one call of create_sftp_client inside the loop of create_sftp_connection:
\* ok, neterr (Transport() raised, nothing was opened) or autherr
\* (transport.connect raised on the opened transport, which is not closed)
CreateSftpClient(out) ==
  LET s == [conn EXCEPT !.connected = @ \/ out = "ok",
                        !.open = IF out = "neterr" THEN @ ELSE @ + 1,
                        !.authFailed = @ \/ out = "autherr",
                        !.nconnect = @ + 1]
  IN /\ conn.pc = "connect"
     /\ conn' = IF out = "ok" THEN ConnReturned(s)
                ELSE IF conn.ctry = conn_retries - 1 THEN ConnRaised(s)
                ELSE [s EXCEPT !.ctry = @ + 1]
     /\ UNCHANGED <<itemVars, arch, rt, laterVars>>

\* the channel calls of one attempt on the held handle: ok, fail (the
\* transfer raised) or dirfail (ensure_remote_dir of upload_files raised)
ConnTransfer(out) ==
  /\ conn.pc = "xfer"
  /\ out = "dirfail" => conn.kind = "upload_files" /\ conn.attempt = 0
  /\ conn' =
       IF out = "ok"
       THEN [conn EXCEPT !.results = Append(@, Line("ok", conn.idx)),
                         !.idx = @ + 1, !.attempt = 0, !.nconnect = 0,
                         !.pc = "loop"]
       ELSE IF out = "dirfail" \/ conn.attempt = Tries(conn.kind) - 1
            THEN ConnFailLine(conn)
       ELSE IF conn.kind = "upload_files"
            THEN [conn EXCEPT !.pc = "connect", !.ctry = 0,
                              !.cctx = "reconnect"]
       ELSE [conn EXCEPT !.open = @ - 1, !.held = 0,
                         !.attempt = @ + 1, !.pc = "loop"]
  /\ UNCHANGED <<itemVars, arch, rt, laterVars>>

\* end of the file loop: return the report, the finally clause closes the
\* handle held in sftp
ConnFinish ==
  /\ conn.pc = "loop"
  /\ conn.idx > conn.nfiles
  /\ conn' = [conn EXCEPT !.open = @ - conn.held, !.held = 0,
                          !.pc = "done", !.ret = "report"]
  /\ UNCHANGED <<itemVars, arch, rt, laterVars>>

NextConn ==
  \/ \E kind \in Kinds, n \in Files : ConnStart(kind, n)
  \/ ConnBegin
  \/ \E out \in {"ok", "neterr", "autherr"} : CreateSftpClient(out)
  \/ \E out \in {"ok", "fail", "dirfail"} : ConnTransfer(out)
  \/ ConnFinish

SpecConn == Init /\ [][NextConn]_vars

(* ------------------------ archive session actions -------------------- *)

ArchRunning(p) == arch[p].pc \notin {"idle", "done"}

\* uuid4 gives a value no archive path in use carries
FreshUuid(u) ==
  \A q \in ArchProcs :
    ArchRunning(q) =>
      /\ arch[q].lpath # NoPath => arch[q].lpath[3] # u
      /\ arch[q].rpath # NoPath => arch[q].rpath[3] # u

\* a stage begins
Stage(a, st) == [a EXCEPT !.stages = Append(@, st)]

\* return: the session is over
ArchEnded(a, ret) == [a EXCEPT !.pc = "done", !.ret = ret]

\* entry; download_compressed_folder names its local archive at once,
\* after the folder name alone
ArchStart(p, kind, name) ==
  /\ arch[p].pc \in {"idle", "done"}
  /\ arch' = [arch EXCEPT ![p] =
       IF kind = "up"
       THEN [IdleArch EXCEPT !.kind = kind, !.name = name, !.pc = "compress"]
       ELSE [IdleArch EXCEPT !.kind = kind, !.name = name, !.pc = "connect",
                             !.lpath = <<"temp", name, 0>>]]
  /\ UNCHANGED <<itemVars, conn, rt, laterVars>>

\* (variant for C25: a compress failure is only logged and the session
\* goes on with the next stage)
ArchCompressLogged(p, u, ok) ==
  LET a == Stage(arch[p], "compress")
      b == IF ok THEN a ELSE [a EXCEPT !.failed = "compress"]
  IN /\ arch[p].pc = "compress"
     /\ FreshUuid(u)
     /\ arch' = [arch EXCEPT ![p] =
          IF a.kind = "up"
          THEN [b EXCEPT !.lpath = <<"temp", a.name, u>>,
                         !.lmade = TRUE, !.pc = "connect"]
          ELSE [b EXCEPT !.rpath = <<"tmp", a.name, u>>,
                         !.rmade = TRUE, !.pc = "transfer"]]
     /\ UNCHANGED <<itemVars, conn, rt, laterVars>>

\* create_local_archive (upload) / create_remote_archive (download)
ArchCompress(p, u, ok) ==
  LET a == Stage(arch[p], "compress")
  IN /\ arch[p].pc = "compress"
     /\ FreshUuid(u)
     /\ arch' = [arch EXCEPT ![p] =
          IF ~ok
          THEN ArchEnded([a EXCEPT !.failed = "compress"], "err_compress")
          ELSE IF a.kind = "up"
               THEN [a EXCEPT !.lpath = <<"temp", a.name, u>>,
                              !.lmade = TRUE, !.pc = "connect"]
          ELSE [a EXCEPT !.rpath = <<"tmp", a.name, u>>,
                         !.rmade = TRUE, !.pc = "transfer"]]
     /\ UNCHANGED <<itemVars, conn, rt, laterVars>>

\* create_sftp_connection (and, for download, the listdir of the source)
ArchConnect(p, ok) ==
  LET a == Stage(arch[p], "connect")
  IN /\ arch[p].pc = "connect"
     /\ arch' = [arch EXCEPT ![p] =
          IF ~ok THEN ArchEnded(a, "err")
          ELSE [a EXCEPT !.pc = IF a.kind = "up" THEN "transfer"
                                ELSE "compress"]]
     /\ UNCHANGED <<itemVars, conn, rt, laterVars>>

\* sftp.put / sftp.get of the archive
ArchTransfer(p, ok) ==
  LET a == Stage(arch[p], "transfer")
      b == IF a.kind = "up"
           THEN [a EXCEPT !.rpath = <<"tmp", a.name, a.lpath[3]>>]
           ELSE a
  IN /\ arch[p].pc = "transfer"
     /\ arch' = [arch EXCEPT ![p] =
          IF ~ok THEN ArchEnded(b, "err_transfer")
          ELSE IF a.kind = "up"
               THEN [b EXCEPT !.rmade = TRUE, !.pc = "extract"]
          ELSE [b EXCEPT !.lmade = TRUE, !.pc = "rclean"]]
     /\ UNCHANGED <<itemVars, conn, rt, laterVars>>

\* extract_remote_archive (upload) / shutil.unpack_archive (download)
ArchExtract(p, ok) ==
  LET a == Stage(arch[p], "extract")
  IN /\ arch[p].pc = "extract"
     /\ arch' = [arch EXCEPT ![p] =
          IF ~ok
          THEN ArchEnded([a EXCEPT !.failed = "extract"], "err_extract")
          ELSE [a EXCEPT !.pc = IF a.kind = "up" THEN "rclean"
                                ELSE "lclean"]]
     /\ UNCHANGED <<itemVars, conn, rt, laterVars>>

\* sftp.remove(remote_archive_path); in upload a failure skips the
\* removal of the local archive
ArchRemoveRemote(p, ok) ==
  LET a == [Stage(arch[p], "cleanup") EXCEPT !.rdel = TRUE]
  IN /\ arch[p].pc = "rclean"
     /\ arch' = [arch EXCEPT ![p] =
          IF a.kind = "down" THEN [a EXCEPT !.pc = "extract"]
          ELSE IF ok THEN [a EXCEPT !.pc = "lclean"]
          ELSE ArchEnded(a, "ok")]
     /\ UNCHANGED <<itemVars, conn, rt, laterVars>>

\* os.remove(local_archive_path), then the success message
ArchRemoveLocal(p, ok) ==
  LET a == [Stage(arch[p], "cleanup") EXCEPT !.ldel = TRUE]
  IN /\ arch[p].pc = "lclean"
     /\ arch' = [arch EXCEPT ![p] = ArchEnded(a, "ok")]
     /\ UNCHANGED <<itemVars, conn, rt, laterVars>>

\* update_progress: the progress sink raises, the exception is caught and
\* printed
UpdateProgressRaises(p) ==
  /\ ArchRunning(p)
  /\ arch' = [arch EXCEPT ![p].sinkLogged = TRUE]
  /\ UNCHANGED <<itemVars, conn, rt, laterVars>>

NextArch ==
  \E p \in ArchProcs :
    \/ UpdateProgressRaises(p)
    \/ \E kind \in Dirs, name \in Names : ArchStart(p, kind, name)
    \/ \E u \in Uuids, ok \in BOOLEAN : ArchCompress(p, u, ok)
    \/ \E ok \in BOOLEAN : ArchConnect(p, ok)
    \/ \E ok \in BOOLEAN : ArchTransfer(p, ok)
    \/ \E ok \in BOOLEAN : ArchExtract(p, ok)
    \/ \E ok \in BOOLEAN : ArchRemoveRemote(p, ok)
    \/ \E ok \in BOOLEAN : ArchRemoveLocal(p, ok)

SpecArch == Init /\ [][NextArch]_vars

(* -------------------------- archive round trip ----------------------- *)

\* a local folder LocalBase/name holding the files of tree
RoundStart(name, tree) ==
  /\ DOMAIN tree # {}
  /\ rt' = [IdleRound EXCEPT
              !.pc = "local", !.name = name,
              !.localFs = [f \in {Join(Join(LocalBase, <<name>>), r) :
                                    r \in DOMAIN tree} |->
                             tree[Relpath(f, Join(LocalBase, <<name>>))]]]
  /\ UNCHANGED <<itemVars, conn, arch, laterVars>>

\* upload_compressed_folder(LocalBase/name, RemoteBase), every step
\* succeeding: archive, put, extract into remote_path
RoundUpload ==
  /\ rt.pc = "local"
  /\ rt' = [rt EXCEPT
              !.pc = "uploaded",
              !.remoteFs =
                 Unpacked(rt.remoteFs,
                          CreateLocalArchive(rt.localFs,
                                             Join(LocalBase, <<rt.name>>)),
                          RemoteBase)]
  /\ UNCHANGED <<itemVars, conn, arch, laterVars>>

\* download_compressed_folder(RemoteBase/name, DestBase), every step
\* succeeding: remote archive, get, rmtree of the target, unpack
RoundDownload ==
  /\ rt.pc = "uploaded"
  /\ rt' = [rt EXCEPT
              !.pc = "downloaded",
              !.destFs =
                 Unpacked(Rmtree(rt.destFs, Join(DestBase, <<rt.name>>)),
                          CreateRemoteArchive(rt.remoteFs,
                                              Join(RemoteBase, <<rt.name>>)),
                          DestBase)]
  /\ UNCHANGED <<itemVars, conn, arch, laterVars>>

Trees ==
  UNION {[S -> Contents] : S \in SUBSET RelPaths}

NextRound ==
  \/ \E name \in Names, tree \in Trees : RoundStart(name, tree)
  \/ RoundUpload
  \/ RoundDownload

SpecRound == Init /\ [][NextRound]_vars

(* ------------------------- directory actions ------------------------- *)

\* entry of upload_folder (get_all_files keeps the files only) or of
\* download_folder (makedirs of the main folder, connect, enumeration)
DirStart(kind, files, empties) ==
  /\ dsess.pc = "idle"
  /\ files # {}
  /\ dsess' = [IdleDir EXCEPT !.kind = kind, !.files = files,
                               !.empties = empties, !.todo = files,
                               !.held = (kind = "download_folder"),
                               !.ensured = IF kind = "download_folder"
                                           THEN {<<>>} ELSE {},
                               !.pc = IF kind = "download_folder"
                                      THEN "mkdirs" ELSE "loop"]
  /\ UNCHANGED <<itemVars, conn, arch, rt, ens, lst, ks>>

\* create_all_local_dirs: os.makedirs for every directory enumerated
CreateAllLocalDirs ==
  /\ dsess.pc = "mkdirs"
  /\ dsess' = [dsess EXCEPT
       !.ensured = @ \cup UNION {Prefixes(d) :
                                 d \in DirEntries(dsess.files, dsess.empties)},
       !.pc = "loop"]
  /\ UNCHANGED <<itemVars, conn, arch, rt, ens, lst, ks>>

\* the for statement takes the next file
DirNextFile(f) ==
  /\ dsess.pc = "loop"
  /\ f \in dsess.todo
  /\ dsess' = [dsess EXCEPT !.cur = f, !.todo = @ \ {f}, !.attempt = 0,
                             !.pc = "attempt"]
  /\ UNCHANGED <<itemVars, conn, arch, rt, ens, lst, ks>>

\* one attempt: connect if needed (connfail), ensure the directory of the
\* file (dirfail: the ensure call raised), then the transfer call
DirAttempt(out) ==
  LET f == dsess.cur
      s1 == [dsess EXCEPT
               !.held = out # "connfail",
               !.ensured = IF out = "connfail" THEN @
                           ELSE @ \cup Prefixes(Dirname(f)),
               !.sent = IF out \in {"ok", "xferfail"} THEN @ \cup {f} ELSE @]
  IN /\ dsess.pc = "attempt"
     /\ out = "connfail" => ~dsess.held
     /\ dsess' = IF out = "ok" \/ dsess.attempt = max_retries - 1
                 THEN [s1 EXCEPT !.pc = "loop"]
                 ELSE [s1 EXCEPT !.held = FALSE, !.attempt = @ + 1]
     /\ UNCHANGED <<itemVars, conn, arch, rt, ens, lst, ks>>

\* the loop is over: the session returns its report
DirFinish ==
  /\ dsess.pc = "loop"
  /\ dsess.todo = {}
  /\ dsess' = [dsess EXCEPT !.pc = "done", !.held = FALSE]
  /\ UNCHANGED <<itemVars, conn, arch, rt, ens, lst, ks>>

NextDir ==
  \/ \E kind \in {"upload_folder", "download_folder"},
        files \in SUBSET RelPaths, empties \in SUBSET EmptyDirs :
       DirStart(kind, files, empties)
  \/ CreateAllLocalDirs
  \/ \E f \in RelPaths : DirNextFile(f)
  \/ \E out \in {"ok", "connfail", "dirfail", "xferfail"} : DirAttempt(out)
  \/ DirFinish

SpecDir == Init /\ [][NextDir]_vars

(* ---------------------- ensure_remote_dir actions -------------------- *)

\* current_path of ensure_remote_dir after i parts
CurrentPath(e) == SubSeq(e.remote_path, 1, e.i)

\* ensure_remote_dir is called on a server that holds the directories
\* of existing (a path exists only with the directories above it)
EnsureStart(remote_path, existing) ==
  /\ ens.pc \in {"idle", "done"}
  /\ \A d \in existing : Prefixes(d) \ {<<>>} \subseteq existing
  /\ ens' = [IdleEnsure EXCEPT !.remote_path = remote_path,
                                !.remote = existing, !.pc = "stat_target"]
  /\ UNCHANGED <<itemVars, conn, arch, rt, dsess, lst, ks>>

\* sftp.stat(remote_path): returns when the path exists, else the loop
\* over the parts begins
EnsureStatTarget ==
  /\ ens.pc = "stat_target"
  /\ ens' = IF ens.remote_path \in ens.remote
            THEN [ens EXCEPT !.pc = "done", !.ret = "ok"]
            ELSE [ens EXCEPT !.pc = "stat", !.i = 1]
  /\ UNCHANGED <<itemVars, conn, arch, rt, dsess, lst, ks>>

\* sftp.stat(current_path) in the loop
EnsureStat ==
  /\ ens.pc = "stat"
  /\ ens' = IF CurrentPath(ens) \notin ens.remote
            THEN [ens EXCEPT !.pc = "mkdir"]
            ELSE IF ens.i = Len(ens.remote_path)
                 THEN [ens EXCEPT !.pc = "done", !.ret = "ok"]
                 ELSE [ens EXCEPT !.i = @ + 1]
  /\ UNCHANGED <<itemVars, conn, arch, rt, dsess, lst, ks>>

\* sftp.mkdir(current_path) in the except clause: the server refuses when
\* the directory exists, and the IOError leaves ensure_remote_dir
EnsureMkdir ==
  /\ ens.pc = "mkdir"
  /\ ens' = IF CurrentPath(ens) \in ens.remote
            THEN [ens EXCEPT !.pc = "done", !.ret = "raised"]
            ELSE IF ens.i = Len(ens.remote_path)
                 THEN [ens EXCEPT !.remote = @ \cup {CurrentPath(ens)},
                                  !.pc = "done", !.ret = "ok"]
                 ELSE [ens EXCEPT !.remote = @ \cup {CurrentPath(ens)},
                                  !.pc = "stat", !.i = @ + 1]
  /\ UNCHANGED <<itemVars, conn, arch, rt, dsess, lst, ks>>

\* another party (a second session, another client) creates a directory
\* on the server while ensure_remote_dir runs
OtherMkdir(d) ==
  /\ ens.pc \in {"stat_target", "stat", "mkdir"}
  /\ d \notin ens.remote
  /\ Prefixes(Dirname(d)) \ {<<>>} \subseteq ens.remote
  /\ ens' = [ens EXCEPT !.remote = @ \cup {d}]
  /\ UNCHANGED <<itemVars, conn, arch, rt, dsess, lst, ks>>

NextEnsure ==
  \/ \E remote_path \in EnsurePaths, existing \in SUBSET EnsurePaths :
       EnsureStart(remote_path, existing)
  \/ EnsureStatTarget
  \/ EnsureStat
  \/ EnsureMkdir
  \/ \E d \in EnsurePaths : OtherMkdir(d)

SpecEnsure == Init /\ [][NextEnsure]_vars

(* --------------------- remote enumeration actions -------------------- *)

\* download_folder reaches the enumeration of a remote tree
ListStart(fs) ==
  /\ lst.pc \in {"idle", "done"}
  /\ fs.nolist \subseteq fs.dirs
  /\ fs.nostat \subseteq fs.dirs \cup fs.files
  /\ lst' = [IdleList EXCEPT !.fs = fs, !.pc = "scan"]
  /\ UNCHANGED <<itemVars, conn, arch, rt, dsess, ens, ks>>

\* remote_files_map, remote_dirs = get_all_remote_files(sftp, remote_path)
ListScan ==
  LET r == GetAllRemoteFiles(lst.fs, <<>>)
  IN /\ lst.pc = "scan"
     /\ lst' = [lst EXCEPT !.all_files = r.all_files,
                           !.all_dirs = r.all_dirs, !.pc = "done"]
     /\ UNCHANGED <<itemVars, conn, arch, rt, dsess, ens, ks>>

NextList ==
  \/ \E fs \in RemoteTrees : ListStart(fs)
  \/ ListScan

SpecList == Init /\ [][NextList]_vars

(* ----------------------- keyed session actions ---------------------- *)

\* setup of a session on the manifest Files of root: load the list stored
\* under the key root, filter the manifest
KeyedStart(x, root, dest, resume) ==
  LET all == SeqOf(Files)
      completed == IF resume THEN Get(ks.file, root) ELSE <<>>
      todo == SelectSeq(all, LAMBDA f : f \notin Range(completed))
      s == [IdleWorker EXCEPT !.root = root, !.dest = dest,
                              !.completed_files = completed, !.todo = todo,
                              !.skipped = Files \cap Range(completed)]
  IN /\ ks.w[x].pc \in {"idle", "done"}
     /\ ks.n < MaxKeyedSessions
     /\ ks' = [ks EXCEPT !.n = @ + 1,
                         !.w[x] = IF todo = <<>> /\ completed # <<>>
                                  THEN [s EXCEPT !.pc = "done"]
                                  ELSE [s EXCEPT !.pc = "loop"]]
     /\ UNCHANGED <<itemVars, conn, arch, rt, dsess, ens, lst>>

\* the attempts for the next file: the transfer returned (ok) or the last
\* attempt failed
KeyedTransfer(x, ok) ==
  LET s == ks.w[x]
      f == Head(s.todo)
  IN /\ s.pc = "loop"
     /\ s.todo # <<>>
     /\ ks' = IF ok
              THEN [ks EXCEPT !.delivered = @ \cup {<<s.dest, s.root, f>>},
                              !.w[x].completed_files = Append(@, f),
                              !.w[x].todo = Tail(@),
                              !.w[x].pc = "save"]
              ELSE [ks EXCEPT !.w[x].todo = Tail(@)]
     /\ UNCHANGED <<itemVars, conn, arch, rt, dsess, ens, lst>>

\* save_progress: progress = load_progress(); progress[key] = completed
KeyedSaveLoad(x) ==
  LET s == ks.w[x]
  IN /\ s.pc = "save"
     /\ ks' = [ks EXCEPT !.w[x].prog = Put(ks.file, s.root, s.completed_files),
                         !.w[x].pc = "save_write"]
     /\ UNCHANGED <<itemVars, conn, arch, rt, dsess, ens, lst>>

\* save_progress: json.dump(progress) over the file
KeyedSaveWrite(x) ==
  LET s == ks.w[x]
  IN /\ s.pc = "save_write"
     /\ ks' = [ks EXCEPT !.file = s.prog, !.w[x].prog = <<>>,
                         !.w[x].pc = "loop"]
     /\ UNCHANGED <<itemVars, conn, arch, rt, dsess, ens, lst>>

\* end of the loop: the completion test, then the load of clear_progress
KeyedFinish(x) ==
  LET s == ks.w[x]
  IN /\ s.pc = "loop"
     /\ s.todo = <<>>
     /\ ks' = IF Files \subseteq Range(s.completed_files)
                 /\ s.root \in DOMAIN ks.file
              THEN [ks EXCEPT !.w[x].prog = Del(ks.file, s.root),
                              !.w[x].pc = "clear_write"]
              ELSE [ks EXCEPT !.w[x].pc = "done"]
     /\ UNCHANGED <<itemVars, conn, arch, rt, dsess, ens, lst>>

\* clear_progress: json.dump of the dict without the key
KeyedClearWrite(x) ==
  LET s == ks.w[x]
  IN /\ s.pc = "clear_write"
     /\ ks' = [ks EXCEPT !.file = s.prog, !.w[x].prog = <<>>,
                         !.w[x].pc = "done"]
     /\ UNCHANGED <<itemVars, conn, arch, rt, dsess, ens, lst>>

NextKeyed ==
  \E x \in Workers :
    \/ \E root \in KeyRoots, dest \in Dests, resume \in BOOLEAN :
         KeyedStart(x, root, dest, resume)
    \/ \E ok \in BOOLEAN : KeyedTransfer(x, ok)
    \/ KeyedSaveLoad(x)
    \/ KeyedSaveWrite(x)
    \/ KeyedFinish(x)
    \/ KeyedClearWrite(x)

SpecKeyed == Init /\ [][NextKeyed]_vars

(* --------------------------- property helpers ------------------------- *)

StoredIn(st, d, root) == IF st[d].ok THEN Get(st[d].m, root) ELSE <<>>

\* the per-file lines of a report, in report order
ItemLines(s) ==
  LET item(l) == l.k \in {"ok", "fail"}
  IN SelectSeq(s.results, item)

\* the step starts a session of process p
Starts(p) == nSessions' = nSessions + 1 /\ sess'[p].pc # "idle"

\* the step issues a transfer call (put / get) for file g in session p
Issues(p, g) ==
  /\ sess[p].pc = "loop"
  /\ sess'[p].pc # "idle"
  /\ sess'[p].nsent[g] = sess[p].nsent[g] + 1

\* the files whose transfer call returned in session s
Transferred(s) ==
  {f \in Files : s.nsent[f] > 0 /\
                 ItemId(s.dir, s.root, f) \in Range(s.completed_files)}

\* every manifest item is in the completed list
CoversAll(s) ==
  \A f \in Range(s.all_files) :
    ItemId(s.dir, s.root, f) \in Range(s.completed_files)

\* the session returned from its loop or from the already-complete test
Returned(s) == s.pc = "done" /\ s.ret \in {"report", "already"}

\* the files of session s that used up max_retries attempts without success
Exhausted(s) ==
  {f \in Range(s.remaining_files) :
     s.natt[f] = max_retries /\ f \notin Succeeded(s)}

(* ------------------------------- claims ------------------------------- *)

\* C1: when a transfer call is issued for a file, every other file whose
\* transfer call has returned in this session is in the root's stored record.
C1_PersistedBeforeNext ==
  [][\A p \in Procs : \A g \in Files :
       Issues(p, g) =>
         \A f \in Transferred(sess[p]) \ {g} :
           ItemId(sess[p].dir, sess[p].root, f)
             \in Range(Stored(sess[p].dir, sess[p].root))]_vars

\* C2: the first session after a kill, run with resume on the same root,
\* loads every item whose save had returned before the kill and leaves it
\* out of the files to transfer.
C2_CrashSafe ==
  [][\A p \in Procs :
       ( /\ Starts(p)
         /\ hist.kind = "crash"
         /\ sess'[p].resume
         /\ sess'[p].dir = hist.dir /\ sess'[p].root = hist.root
         /\ sess'[p].ret # "err" )
       => \A f \in hist.persisted :
            /\ ItemId(hist.dir, hist.root, f) \in Range(sess'[p].completed0)
            /\ f \notin Range(sess'[p].remaining_files)]_vars

\* C3: whenever the process is killed the progress files stay parseable.
C3_AtomicSave == \A d \in Dirs : store[d].ok

\* C4: no step removes an item from a root's stored record, except the
\* clearing of the record by a session all of whose manifest is completed.
C4_Monotone ==
  [][\A d \in Dirs, r \in Roots :
       \/ Range(StoredIn(store, d, r)) \subseteq Range(StoredIn(store', d, r))
       \/ \E p \in Procs :
            /\ sess[p].pc = "clear_write"
            /\ sess[p].dir = d /\ sess[p].root = r
            /\ CoversAll(sess[p])
            /\ StoredIn(store', d, r) = <<>>]_vars

\* C5: a resume session started on the unchanged manifest of a session that
\* transferred every item has nothing left to transfer.
C5_Idempotent ==
  [][\A p \in Procs :
       ( /\ Starts(p)
         /\ hist.kind = "exit" /\ hist.full
         /\ sess'[p].resume
         /\ sess'[p].dir = hist.dir /\ sess'[p].root = hist.root
         /\ sess'[p].all_files = hist.manifest )
       => sess'[p].remaining_files = <<>>]_vars

\* C6: in a returned session in which exactly one remaining file used up its
\* 3 attempts, every other remaining file was transferred and the report
\* holds, in manifest order, one failure line for that file and one success
\* line for each of the others.
C6_PartialFailure ==
  \A p \in Procs :
    LET s == sess[p]
        n == Len(s.remaining_files)
    IN (Returned(s) /\ Cardinality(Exhausted(s)) = 1) =>
         /\ \A g \in Range(s.remaining_files) \ Exhausted(s) :
              g \in Transferred(s)
         /\ ItemLines(s) =
              [i \in 1..n |->
                 Line(IF s.remaining_files[i] \in Exhausted(s)
                      THEN "fail" ELSE "ok", s.remaining_files[i])]

\* a report with the failure line before a later file's success line
C6_Witness ==
  \E p \in Procs :
    LET s == sess[p]
    IN /\ Returned(s)
       /\ Cardinality(Exhausted(s)) = 1
       /\ Len(s.remaining_files) >= 2
       /\ s.remaining_files[1] \in Exhausted(s)
       /\ s.remaining_files[2] \in Succeeded(s)

\* C7: no file is attempted more than 3 times and the loop has moved past
\* every file that succeeded; and a session that started with nothing
\* completed and saw every file succeed, one of them on its third attempt,
\* reports one success line per file in manifest order, then the summary,
\* and leaves no record for the root.
C7_RetryThenComplete ==
  \A p \in Procs :
    LET s == sess[p]
        n == Len(s.all_files)
    IN /\ \A f \in Files : s.natt[f] <= max_retries
       /\ \A i \in 1..Len(s.remaining_files) :
            s.remaining_files[i] \in Succeeded(s) => i < s.idx
       /\ ( /\ Returned(s)
            /\ s.completed0 = <<>>
            /\ Range(s.all_files) \subseteq Succeeded(s)
            /\ \E f \in Files : s.natt[f] = max_retries )
          => /\ s.results =
                  [i \in 1..n |-> Line("ok", s.all_files[i])]
                    \o <<Line("summary", 0)>>
             /\ Stored(s.dir, s.root) = <<>>

\* C8: a resume session issues no attempt for a file whose identifier it
\* loaded as completed, and a returned one has attempted exactly the
\* manifest files it did not load as completed.
C8_ResumeSkips ==
  \A p \in Procs :
    LET s == sess[p]
        done0 == {f \in Files : ItemId(s.dir, s.root, f) \in Range(s.completed0)}
    IN (s.resume /\ s.pc # "idle" /\ s.ret \notin {"err", "err_load"}) =>
         /\ \A f \in done0 : s.natt[f] = 0 /\ s.nsent[f] = 0
         /\ s.pc = "done" =>
              {f \in Files : s.natt[f] > 0} = Range(s.all_files) \ done0

\* a returned resume session that skipped a loaded file and attempted another
C8_Witness ==
  \E p \in Procs :
    LET s == sess[p]
    IN /\ Returned(s) /\ s.resume
       /\ \E f, g \in Range(s.all_files) :
            /\ ItemId(s.dir, s.root, f) \in Range(s.completed0)
            /\ s.natt[f] = 0
            /\ s.nsent[g] > 0

\* C9: a session that has returned (from its loop or from the
\* already-complete test) has cleared the record if and only if its
\* completed list covers the manifest, and a cleared record is gone.
C9_ClearIffCovered ==
  \A p \in Procs :
    LET s == sess[p]
    IN Returned(s) =>
         /\ CoversAll(s) <=> s.cleared
         /\ s.cleared => Stored(s.dir, s.root) = <<>>

\* C10: no channel call is made on a handle on which a call has failed.
C10_FreshAfterFailure ==
  [][\A p \in Procs : \A g \in Files :
       (Issues(p, g) /\ sess[p].sftp = 1) => ~sess[p].bad]_vars

\* C11: when a session has returned, every handle it opened is closed.
C11_HandlesClosed == conn.pc = "done" => conn.open = 0

\* C12: no call of create_sftp_client is made in a session in which an
\* earlier call failed at authentication.
C12_AuthNotRetried ==
  [][(conn.pc = "connect" /\ conn' # conn) => ~conn.authFailed]_vars

\* C13: a session in which no call of create_sftp_client returned a handle
\* ends with the single error message and no per-file line.
C13_SingleFailureMessage ==
  (conn.pc = "done" /\ ~conn.connected) =>
    conn.ret = "err" /\ conn.results = <<>>

\* C14: when an archive session has returned, a removal was attempted for
\* each archive file it created.
C14_ArtifactsRemoved ==
  \A p \in ArchProcs :
    arch[p].pc = "done" =>
      /\ arch[p].lmade => arch[p].ldel
      /\ arch[p].rmade => arch[p].rdel

\* the place of a stage in the order connect, compress, transfer, extract,
\* cleanup
StageRank(st) ==
  CASE st = "connect" -> 1 [] st = "compress" -> 2 [] st = "transfer" -> 3
    [] st = "extract" -> 4 [] st = "cleanup" -> 5

\* C15: the stages of an archive session begin in the order connect,
\* compress, transfer, extract, cleanup.
C15_StageOrder ==
  \A p \in ArchProcs :
    \A i, j \in 1..Len(arch[p].stages) :
      i < j => StageRank(arch[p].stages[i]) <= StageRank(arch[p].stages[j])

\* C16: two archive sessions that run at the same time have different local
\* archive paths and different remote archive paths.
C16_DistinctArtifacts ==
  \A p, q \in ArchProcs :
    (p # q /\ ArchRunning(p) /\ ArchRunning(q)) =>
      /\ arch[p].lpath # NoPath => arch[p].lpath # arch[q].lpath
      /\ arch[p].rpath # NoPath => arch[p].rpath # arch[q].rpath

\* C17: after an archive upload of a folder and an archive download of the
\* uploaded folder, the downloaded folder holds the same relative file
\* paths with the same contents as the original folder.
C17_RoundTrip ==
  rt.pc = "downloaded" =>
    TreeAt(rt.destFs, Join(DestBase, <<rt.name>>))
      = TreeAt(rt.localFs, Join(LocalBase, <<rt.name>>))

\* C18: a step in which the progress sink raises changes neither what the
\* session does next nor what it returns: it leaves the state of a per-item
\* session as it is, and of an archive session all but the logged message.
C18_SinkFailureIgnored ==
  [][/\ \A p \in Procs : SinkRaise(p) => sess' = sess
     /\ \A q \in ArchProcs :
          UpdateProgressRaises(q) =>
            [arch'[q] EXCEPT !.sinkLogged = arch[q].sinkLogged] = arch[q]]_vars

\* C19: the report a session returns from its loop holds one result line
\* per remaining file, in manifest order, and ends with the summary line.
C19_ReportEndsWithSummary ==
  \A p \in Procs :
    LET s == sess[p]
        n == Len(s.results)
        lines == ItemLines(s)
    IN (s.pc = "done" /\ s.ret = "report") =>
         /\ [i \in 1..Len(lines) |-> lines[i].f] = s.remaining_files
         /\ n > 0 /\ s.results[n] = Line("summary", 0)

\* C20: a step of a session of one direction leaves the progress file of the
\* other direction as it is; the completed list a session loads at its start
\* is the one its own direction's file holds for the root, and the dictionary
\* a save or a clear loads is, apart from the session's root, the content of
\* its own direction's file.
C20_SeparateNamespaces ==
  [][\A p \in Procs :
       LET a == IF Starts(p) THEN sess'[p].dir ELSE sess[p].dir
       IN /\ \A d \in Dirs \ {a} : store'[d] = store[d]
          /\ (Starts(p) /\ sess'[p].resume /\ sess'[p].ret \notin {"err", "err_load"}) =>
               sess'[p].completed0 = Get(store[a].m, sess'[p].root)
          /\ (sess'[p].prog # <<>> /\ sess'[p].prog # sess[p].prog) =>
               Del(sess'[p].prog, sess[p].root) = Del(store[a].m, sess[p].root)]_vars

\* an upload session has saved an item under a root for which the download
\* file holds a record
C20_Witness ==
  \E p \in Procs :
    /\ sess[p].dir = "up"
    /\ Succeeded(sess[p]) # {}
    /\ Stored("up", sess[p].root) # <<>>
    /\ Stored("down", sess[p].root) # <<>>

\* C21: on behalf of one file a per-item session calls the connect operation
\* at most once plus 3 retries before the file is finally failed.
C21_ConnectRetriesBounded ==
  (conn.kind \in {"upload_folder", "download_folder"} /\ conn.pc # "done") =>
    conn.nconnect <= 1 + conn_retries

\* C22: when a per-item session has returned, every directory entry of the
\* source tree, the directories without files included, was ensured at the
\* destination; and at any time the directory of every file whose transfer
\* was issued had been ensured.
C22_DirectoriesEnsured ==
  /\ \A f \in dsess.sent : Dirname(f) \in dsess.ensured
  /\ dsess.pc = "done" =>
       DirEntries(dsess.files, dsess.empties) \subseteq dsess.ensured

\* C23: a call of ensure_remote_dir completes successfully, also when the
\* directory or one above it is created by another party between the
\* existence check and the create call.
C23_RaceTolerated == ens.pc = "done" => ens.ret = "ok"

\* C24: an archive session that returns its success result attempted the
\* removal of both archive copies, whether or not one removal failed, and a
\* session that ends in its cleanup stage returns the success result.
C24_CleanupIndependent ==
  \A p \in ArchProcs :
    LET a == arch[p]
        n == Len(a.stages)
    IN a.pc = "done" =>
         /\ a.ret = "ok" => a.rdel /\ a.ldel
         /\ (n > 0 /\ a.stages[n] = "cleanup") => a.ret = "ok"

\* C25: when the compress or the extract stage of an archive session has
\* failed, that stage is the last one the session began (no transfer,
\* extraction or cleanup follows it) and the session has ended with a
\* failure message, not the success result.
C25_FailureAborts ==
  \A p \in ArchProcs :
    LET a == arch[p]
    IN a.failed # "none" =>
         /\ a.stages[Len(a.stages)] = a.failed
         /\ a.pc = "done"
         /\ a.ret \in {"err_compress", "err_extract"}

\* one session has ended on a failed compress stage, the other on a failed
\* extract stage
C25_Witness ==
  \E p, q \in ArchProcs :
    /\ arch[p].pc = "done" /\ arch[p].failed = "compress"
    /\ arch[q].pc = "done" /\ arch[q].failed = "extract"

\* the files of the tree that lie in directories which can all be listed
ListableFiles(fs) ==
  {f \in fs.files : \A d \in Prefixes(Dirname(f)) : Listable(fs, d)}

\* C26: get_all_remote_files returns, and its manifest holds every file
\* of every subtree that can be listed, whatever directories cannot be.
C26_PartialListing ==
  lst.pc = "done" => ListableFiles(lst.fs) \subseteq lst.all_files

\* an enumeration returned a file of one subtree while another subtree,
\* holding a file, could not be listed
C26_Witness ==
  /\ lst.pc = "done"
  /\ \E d \in lst.fs.nolist : d # <<>> /\ Children(lst.fs, d) # {}
  /\ \E f \in lst.all_files : Len(f) > 1 /\ f \in ListableFiles(lst.fs)

\* C27: at every point of a per-item session that got past its setup, the
\* items recorded as completed so far are items of the session's manifest.
C27_CompletedWithinManifest ==
  \A p \in Procs :
    LET s == sess[p]
    IN s.pc \notin {"idle", "done"} =>
         Range(s.completed_files) \subseteq
           {ItemId(s.dir, s.root, f) : f \in Range(s.all_files)}

\* C28: a step changes the record stored under a root only if it is the
\* write of a save or of a clear by a session on that root; the sessions
\* of other roots leave it as it is.
C28_KeysIndependent ==
  [][\A r \in KeyRoots :
       Get(ks'.file, r) # Get(ks.file, r) =>
         \E x \in Workers :
           /\ ks.w[x].root = r
           /\ ks.w[x].pc \in {"save_write", "clear_write"}
           /\ ks'.w[x].pc # ks.w[x].pc]_vars

\* C30: a file the resume filter of a session leaves out was transferred
\* by an earlier session to the destination root this session sends to.
C30_SkipOnlyDelivered ==
  \A x \in Workers :
    LET s == ks.w[x]
    IN s.pc # "idle" =>
         \A f \in s.skipped : <<s.dest, s.root, f>> \in ks.delivered

\* C29: a per-item session that entered its file loop returns its report,
\* whatever attempts fail at connecting or transferring, and the report has
\* one line for each file the session had to transfer, in manifest order:
\* no failure leaves the session or stops the files after it.
C29_TerminatesWithReport ==
  \A p \in Procs :
    (sess[p].pc = "loop") ~>
      (/\ sess[p].pc = "done"
       /\ sess[p].ret = "report"
       /\ [i \in 1..Len(ItemLines(sess[p])) |-> ItemLines(sess[p])[i].f]
            = sess[p].remaining_files)

\* a session returned its report after a file failed finally, once at
\* connecting and otherwise at transferring, and the file after it succeeded
C29_Witness ==
  \E p \in Procs :
    LET s == sess[p]
    IN /\ s.pc = "done" /\ s.ret = "report"
       /\ Len(s.remaining_files) = 2
       /\ Line("fail", s.remaining_files[1]) \in Range(s.results)
       /\ s.natt[s.remaining_files[1]] > s.nsent[s.remaining_files[1]]
       /\ s.nsent[s.remaining_files[1]] > 0
       /\ Line("ok", s.remaining_files[2]) \in Range(s.results)

\* the files with a final failure line in the report of session s
Failed(s) == {f \in Files : Line("fail", f) \in Range(s.results)}

\* C31: the report of a per-item session never holds a failure line
\* together with the completion summary, and a session in which a file
\* ended in final failure does not clear the progress record.
C31_NoSummaryWithFailure ==
  \A p \in Procs :
    LET s == sess[p]
    IN Failed(s) # {} =>
         /\ Line("summary", 0) \notin Range(s.results)
         /\ ~s.cleared

====
